---- MODULE Spec2Model ----
(***************************************************************************)
(* A model of stagger's frame object model (stagger/frames.py): the class  *)
(* Frame with its constructor, copy constructor, merge policy, version     *)
(* translation and encoder, and the subclasses ErrorFrame and TextFrame.   *)
(*                                                                         *)
(* Python objects live in a heap: frames, lists and dicts are heap objects *)
(* named by their index, so that two frames holding the same list or the   *)
(* same flags dict is something the model can express.                     *)
(***************************************************************************)
EXTENDS Integers, Sequences, FiniteSets, TLC

VARIABLES frames, lists, dicts, call, result, warnings

vars == <<frames, lists, dicts, call, result, warnings>>

-----------------------------------------------------------------------------
(* Bounds of the model.                                                    *)

\* longest text list of a frame the inputs hold
MaxText == 2
\* most frames handed to one merge call
MaxMerge == 3
\* longest text list of a frame handed to merge
MaxMergeText == 1
\* most frame objects, and most list objects, the heap holds
MaxFrames == 2
\* longest payload handed to decode
MaxData == 3

-----------------------------------------------------------------------------
(* Python values.  Every value is a record of one shape: t is the type     *)
(* (or, for an exception object, the exception's class), v an integer      *)
(* (the int itself, or the heap index of a list or a frame), s a sequence  *)
(* (the code points of a str, the bytes of a bytes, the frame references   *)
(* of a list of frames).                                                   *)

Val(t, v, s) == [t |-> t, v |-> v, s |-> s]
NoneV        == Val("None", 0, <<>>)
IntV(n)      == Val("int", n, <<>>)
StrV(s)      == Val("str", 0, s)
BytesV(b)    == Val("bytes", 0, b)
ListV(ref)   == Val("list", ref, <<>>)
FrameV(ref)  == Val("Frame", ref, <<>>)
FramesV(fs)  == Val("frames", 0, fs)
BoolV(b)     == Val("bool", IF b THEN 1 ELSE 0, <<>>)
ExcV(name)   == Val(name, 0, <<>>)

\* code points of the strings the inputs hold: "A", o-double-acute (not in
\* latin-1), and a lone surrogate (in no encoding)
Chars == {65, 337, 55296}
Strs  == {<<c>> : c \in Chars}

RECURSIVE Concat(_)
Concat(ss) == IF ss = <<>> THEN <<>> ELSE Head(ss) \o Concat(Tail(ss))

SeqsUpTo(S, n) == UNION {[1..k -> S] : k \in 0..n}

-----------------------------------------------------------------------------
(* The schema: field codecs and frame classes.                             *)

\* a codec object: its class, its field name, and the class statement whose
\* _framespec tuple created it (codec objects compare by identity, so two
\* tuples are equal only when they are the same inherited tuple)
FieldSpec(kind, name, owner) == [kind |-> kind, name |-> name, owner |-> owner]

VersionIs(n)    == [isset |-> FALSE, n |-> n, set |-> {}]
VersionIn(S)    == [isset |-> TRUE, n |-> 0, set |-> S]

\* _v2_frame, _untested and _bozo are class attributes looked up through the
\* bases: the table holds what the lookup finds ("" when hasattr is false)
FrameClass(base, framespec, version, dup, v2, untested, bozo) ==
    [base |-> base, framespec |-> framespec, version |-> version,
     allow_duplicates |-> dup, v2_frame |-> v2, untested |-> untested,
     bozo |-> bozo]

\* the classes frames.py defines
FrameClasses ==
    [c \in {"Frame", "UnknownFrame", "ErrorFrame", "TextFrame", "URLFrame"} |->
       CASE c = "Frame" ->
              FrameClass("object", <<>>, VersionIn({}), FALSE, "", FALSE, FALSE)
         [] c = "UnknownFrame" ->
              FrameClass("Frame", <<FieldSpec("BinaryDataSpec", "data", "UnknownFrame")>>,
                         VersionIn({}), FALSE, "", FALSE, FALSE)
         [] c = "ErrorFrame" ->
              FrameClass("Frame", <<FieldSpec("BinaryDataSpec", "data", "ErrorFrame")>>,
                         VersionIn({}), FALSE, "", FALSE, FALSE)
         [] c = "TextFrame" ->
              FrameClass("Frame", <<FieldSpec("EncodingSpec", "encoding", "TextFrame"),
                                    FieldSpec("SequenceSpec", "text", "TextFrame")>>,
                         VersionIn({}), FALSE, "", FALSE, FALSE)
         [] c = "URLFrame" ->
              FrameClass("Frame", <<FieldSpec("URLStringSpec", "url", "URLFrame")>>,
                         VersionIn({}), FALSE, "", FALSE, FALSE)]

\* a sample of the frame types the registry declares on top of them: a
\* v2.3/v2.4 text frame with a v2.2 counterpart, that counterpart, a
\* v2.4-only text frame, a duplicate-allowed URL frame with its v2.2
\* counterpart, and a discouraged v2.2-only frame
Id3Classes ==
    [c \in {"TIT2", "TT2", "TDRC", "WOAR", "WAR", "CRM"} |->
       CASE c = "TIT2" ->
              FrameClass("TextFrame", FrameClasses["TextFrame"].framespec,
                         VersionIn({3, 4}), FALSE, "TT2", FALSE, FALSE)
         [] c = "TT2" ->
              FrameClass("TIT2", FrameClasses["TextFrame"].framespec,
                         VersionIs(2), FALSE, "TT2", FALSE, FALSE)
         [] c = "TDRC" ->
              FrameClass("TextFrame", FrameClasses["TextFrame"].framespec,
                         VersionIs(4), FALSE, "", TRUE, FALSE)
         [] c = "WOAR" ->
              FrameClass("URLFrame", FrameClasses["URLFrame"].framespec,
                         VersionIn({3, 4}), TRUE, "WAR", FALSE, FALSE)
         [] c = "WAR" ->
              FrameClass("WOAR", FrameClasses["URLFrame"].framespec,
                         VersionIs(2), TRUE, "WAR", FALSE, FALSE)
         [] c = "CRM" ->
              FrameClass("Frame", <<FieldSpec("BinaryDataSpec", "data", "CRM")>>,
                         VersionIs(2), FALSE, "", TRUE, TRUE)]

Classes == FrameClasses @@ Id3Classes

ClassNames == DOMAIN Classes

\* issubclass(c, d), for d a class of the table
RECURSIVE IsSubclass(_, _)
IsSubclass(c, d) ==
    IF c = d THEN TRUE
    ELSE IF c \notin ClassNames THEN FALSE
    ELSE IsSubclass(Classes[c].base, d)

\* every attribute name a frame of the table can carry
AttrNames == {"encoding", "text", "url", "data", "exception"}

\* an attribute that was never set: getattr's default, hasattr is false
Absent == Val("absent", 0, <<>>)

-----------------------------------------------------------------------------
(* The heap.                                                               *)

Heap(fr, li, di) == [frames |-> fr, lists |-> li, dicts |-> di]

\* the outcome of a call: the heap after it, the exception it raised ("" if
\* it returned), the value it returned, the warnings it emitted
Ret(h, v, w)   == [h |-> h, exc |-> "", val |-> v, warn |-> w]
Raise(h, e, w) == [h |-> h, exc |-> e, val |-> NoneV, warn |-> w]

SetAttr(h, f, name, val) ==
    [h EXCEPT !.frames[f].attrs[name] = val]

GetAttr(h, f, name) == h.frames[f].attrs[name]

-----------------------------------------------------------------------------
(* Field codecs: validate.                                                 *)

Encodings == 0..3

ValidateOK(spec, val) ==
    CASE spec.kind = "EncodingSpec"   -> val.t = "int" /\ val.v \in Encodings
      [] spec.kind = "SequenceSpec"   -> val.t = "list"
      [] spec.kind = "URLStringSpec"  ->
             val.t = "str" /\ \A i \in 1..Len(val.s) : val.s[i] < 128
      [] spec.kind = "BinaryDataSpec" -> val.t = "bytes"

-----------------------------------------------------------------------------
(* Frame.__init__                                                          *)

\* the loop over the schema: validate each supplied value, set every field
RECURSIVE InitFields(_, _, _, _, _)
InitFields(h, f, framespec, kwargs, i) ==
    IF i > Len(framespec) THEN Ret(h, FrameV(f), <<>>)
    ELSE LET spec == framespec[i]
             val  == kwargs[spec.name]
         IN IF val # NoneV /\ ~ValidateOK(spec, val)
            THEN Raise(h, "ValidationError", <<>>)
            ELSE InitFields(SetAttr(h, f, spec.name, val), f, framespec,
                            kwargs, i + 1)

\* cls(frameid, flags, **kwargs); frameid "" and flags 0 stand for None
FrameInit(h, cls, frameid, flags, kwargs) ==
    LET fid  == IF frameid # "" THEN frameid ELSE cls
        keep == flags # 0 /\ h.dicts[flags] # {}
        di   == IF keep THEN h.dicts ELSE Append(h.dicts, {})
        fl   == IF keep THEN flags ELSE Len(di)
        f    == Len(h.frames) + 1
        new  == [cls |-> cls, frameid |-> fid, flags |-> fl,
                 attrs |-> [a \in AttrNames |-> Absent]]
        h1   == Heap(Append(h.frames, new), h.lists, di)
        r    == InitFields(h1, f, Classes[cls].framespec, kwargs, 1)
    IN IF r.exc # "" THEN Raise(h, r.exc, <<>>) ELSE r

NoKwargs == [a \in AttrNames |-> NoneV]

-----------------------------------------------------------------------------
(* Frame._from_frame: the copy constructor                                 *)

RECURSIVE CopyFields(_, _, _, _, _)
CopyFields(h, new, f, framespec, i) ==
    IF i > Len(framespec) THEN h
    ELSE LET name == framespec[i].name
             got  == GetAttr(h, f, name)
             val  == IF got = Absent THEN NoneV ELSE got
         IN CopyFields(SetAttr(h, new, name, val), new, f, framespec, i + 1)

FromFrame(h, cls, f) ==
    IF Classes[h.frames[f].cls].framespec # Classes[cls].framespec
    THEN Raise(h, "AssertionError", <<>>)
    ELSE LET r == FrameInit(h, cls, "", h.frames[f].flags, NoKwargs)
         IN IF r.exc # "" THEN r
            ELSE Ret(CopyFields(r.h, r.val.v, f, Classes[cls].framespec, 1),
                     r.val, <<>>)

-----------------------------------------------------------------------------
(* Frame._merge and TextFrame._merge                                       *)

\* frames[-1:]
LastSlice(fs) == IF fs = <<>> THEN <<>> ELSE <<fs[Len(fs)]>>

\* Merge with the slice taken at the wrong end: frames[:1]
MergeKeepsFirst(h, cls, fs) ==
    IF Classes[cls].allow_duplicates
    THEN Ret(h, FramesV(fs), <<>>)
    ELSE Ret(h, FramesV(IF fs = <<>> THEN <<>> ELSE <<fs[1]>>),
             IF Len(fs) > 1 THEN <<"DuplicateWarning">> ELSE <<>>)

Merge(h, cls, fs) ==
    IF Classes[cls].allow_duplicates
    THEN Ret(h, FramesV(fs), <<>>)
    ELSE Ret(h, FramesV(LastSlice(fs)),
             IF Len(fs) > 1 THEN <<"DuplicateWarning">> ELSE <<>>)

\* the loop "for f in frames: frame.text.extend(f.text)"
RECURSIVE ExtendAll(_, _, _, _)
ExtendAll(h, frame, fs, i) ==
    IF i > Len(fs) THEN Ret(h, FramesV(<<frame>>), <<>>)
    ELSE LET src == GetAttr(h, fs[i], "text")
             dst == GetAttr(h, frame, "text")
         IN IF src.t # "list"
            THEN Raise(h, "TypeError", <<>>)
            ELSE ExtendAll([h EXCEPT !.lists[dst.v] = @ \o h.lists[src.v]],
                           frame, fs, i + 1)

\* TextMerge that folds only the last instance in, as Frame._merge keeps it
TextMergeLastWins(h, cls, fs) ==
    LET li == Append(h.lists, <<>>)
        h1 == Heap(h.frames, li, h.dicts)
        r  == FrameInit(h1, cls, "", 0,
                        [NoKwargs EXCEPT !["text"] = ListV(Len(li))])
    IN IF r.exc # "" THEN r ELSE ExtendAll(r.h, r.val.v, LastSlice(fs), 1)

TextMerge(h, cls, fs) ==
    LET li == Append(h.lists, <<>>)
        h1 == Heap(h.frames, li, h.dicts)
        r  == FrameInit(h1, cls, "", 0,
                        [NoKwargs EXCEPT !["text"] = ListV(Len(li))])
    IN IF r.exc # "" THEN r ELSE ExtendAll(r.h, r.val.v, fs, 1)

-----------------------------------------------------------------------------
(* Frame._in_version and Frame._to_version                                 *)

\* "for version in version": the loop's target, version, is a local of the
\* function, unbound when the loop evaluates it as its iterable; the
\* parameter versions is never read
InVersion(h, cls, versions) == Raise(h, "UnboundLocalError", <<>>)

ToVersion(h, f, version) ==
    LET cls  == h.frames[f].cls
        r1   == InVersion(h, cls, <<version>>)
        r2   == InVersion(h, cls, <<2>>)
        base == Classes[cls].base
        r3   == InVersion(h, base, <<version>>)
    IN IF r1.exc # "" THEN r1
       ELSE IF r1.val = BoolV(TRUE) THEN Ret(h, FrameV(f), <<>>)
       ELSE IF version = 2 /\ Classes[cls].v2_frame # ""
       THEN FromFrame(h, Classes[cls].v2_frame, f)
       ELSE IF r2.exc # "" THEN r2
       ELSE IF r2.val = BoolV(TRUE) /\ IsSubclass(base, "Frame") /\ r3.exc # ""
       THEN r3
       ELSE IF r2.val = BoolV(TRUE) /\ IsSubclass(base, "Frame")
               /\ r3.val = BoolV(TRUE)
       THEN FromFrame(h, base, f)
       ELSE Raise(h, "IncompatibleFrameError", <<>>)

-----------------------------------------------------------------------------
(* Field codecs: write.  The text encodings are 0 latin-1, 1 utf-16 (with  *)
(* a byte order mark), 2 utf-16-be, 3 utf-8.                               *)

\* EncodedStringSpec.preferred_encodings, narrowest first
preferred_encodings == <<0, 1>>

IsSurrogate(c) == c >= 55296 /\ c <= 57343

\* str.encode raises UnicodeEncodeError on a character outside the encoding
Representable(enc, c) ==
    IF enc = 0 THEN c < 256 ELSE ~IsSurrogate(c)

EncodeChar(enc, c) ==
    CASE enc = 0 -> <<c>>
      [] enc = 1 -> <<c % 256, c \div 256>>
      [] enc = 2 -> <<c \div 256, c % 256>>
      [] enc = 3 ->
           IF c < 128 THEN <<c>>
           ELSE IF c < 2048 THEN <<192 + (c \div 64), 128 + (c % 64)>>
           ELSE <<224 + (c \div 4096), 128 + ((c \div 64) % 64), 128 + (c % 64)>>

Terminator(enc) == IF enc \in {1, 2} THEN <<0, 0>> ELSE <<0>>

ByteOrderMark(enc) == IF enc = 1 THEN <<255, 254>> ELSE <<>>

\* one string of a text field: its bytes in the encoding, then the terminator
EncodeStr(enc, str) ==
    ByteOrderMark(enc)
      \o Concat([i \in 1..Len(str) |-> EncodeChar(enc, str[i])])
      \o Terminator(enc)

CanEncodeStr(enc, str) == \A i \in 1..Len(str) : Representable(enc, str[i])

\* spec.write(frame, value)
WriteField(h, f, spec, val) ==
    CASE spec.kind = "EncodingSpec" ->
           IF val.t = "int" /\ val.v \in Encodings
           THEN Ret(h, BytesV(<<val.v>>), <<>>)
           ELSE Raise(h, "ValueError", <<>>)
      [] spec.kind = "SequenceSpec" ->
           LET enc == GetAttr(h, f, "encoding")
           IN IF val.t # "list" \/ enc.t # "int" THEN Raise(h, "TypeError", <<>>)
              ELSE LET strs == h.lists[val.v]
                   IN IF \E i \in 1..Len(strs) : ~CanEncodeStr(enc.v, strs[i])
                      THEN Raise(h, "UnicodeEncodeError", <<>>)
                      ELSE Ret(h, BytesV(Concat([i \in 1..Len(strs) |->
                                                  EncodeStr(enc.v, strs[i])])),
                               <<>>)
      [] spec.kind = "URLStringSpec" ->
           IF val.t # "str" THEN Raise(h, "TypeError", <<>>)
           ELSE IF \E i \in 1..Len(val.s) : val.s[i] >= 128
           THEN Raise(h, "UnicodeEncodeError", <<>>)
           ELSE Ret(h, BytesV(val.s \o <<0>>), <<>>)
      [] spec.kind = "BinaryDataSpec" ->
           IF val.t # "bytes" THEN Raise(h, "TypeError", <<>>)
           ELSE Ret(h, BytesV(val.s), <<>>)

-----------------------------------------------------------------------------
(* Frame._to_data                                                          *)

\* encode(): the loop over the schema, from field i on, data so far
RECURSIVE EncodeFrom(_, _, _, _, _)
EncodeFrom(h, f, framespec, i, data) ==
    IF i > Len(framespec) THEN Ret(h, BytesV(data), <<>>)
    ELSE LET w == WriteField(h, f, framespec[i],
                             GetAttr(h, f, framespec[i].name))
         IN IF w.exc # "" THEN w
            ELSE EncodeFrom(h, f, framespec, i + 1, data \o w.val.s)

Encode(h, f) == EncodeFrom(h, f, Classes[h.frames[f].cls].framespec, 1, <<>>)

\* try_preferred_encodings(): the loop from the i-th preferred encoding on
RECURSIVE TryPreferredFrom(_, _, _)
TryPreferredFrom(h, f, i) ==
    IF i > Len(preferred_encodings) THEN Raise(h, "ValueError", <<>>)
    ELSE LET h1 == SetAttr(h, f, "encoding", IntV(preferred_encodings[i]))
             r  == Encode(h1, f)
             h2 == SetAttr(h1, f, "encoding", NoneV)
         IN IF r.exc = "" THEN Ret(h2, r.val, <<>>)
            ELSE IF r.exc = "UnicodeEncodeError"
            THEN TryPreferredFrom(h2, f, i + 1)
            ELSE Raise(h2, r.exc, <<>>)

\* the loop started one encoding too far: the narrowest is never tried
TryPreferredSkipsFirst(h, f) == TryPreferredFrom(h, f, 2)

TryPreferredEncodings(h, f) == TryPreferredFrom(h, f, 1)

WithWarnings(r, w) == [r EXCEPT !.warn = w \o @]

ToData(h, f) ==
    LET cls       == h.frames[f].cls
        framespec == Classes[cls].framespec
        w         == IF Classes[cls].bozo THEN <<"BozoFrameWarning">> ELSE <<>>
    IN IF framespec = <<>> THEN Raise(h, "IndexError", w)
       ELSE IF framespec[1].kind = "EncodingSpec"
               /\ GetAttr(h, f, "encoding") = NoneV
       THEN WithWarnings(TryPreferredEncodings(h, f), w)
       ELSE LET r == Encode(h, f)
            IN IF r.exc = "UnicodeEncodeError"
               THEN WithWarnings(TryPreferredEncodings(h, f), w)
               ELSE WithWarnings(r, w)

-----------------------------------------------------------------------------
(* Field codecs: read.                                                     *)

ReadRet(h, v, rest) == [h |-> h, exc |-> "", val |-> v, rest |-> rest]
ReadRaise(h, e)     == [h |-> h, exc |-> e, val |-> NoneV, rest |-> <<>>]

Decoded(str) == [ok |-> TRUE, str |-> str]
Malformed    == [ok |-> FALSE, str |-> <<>>]

IsCont(b) == b >= 128 /\ b <= 191

RECURSIVE DecodeUtf8(_)
DecodeUtf8(bs) ==
    IF bs = <<>> THEN Decoded(<<>>)
    ELSE LET b  == bs[1]
             n  == IF b < 128 THEN 1
                   ELSE IF b >= 194 /\ b <= 223 THEN 2
                   ELSE IF b >= 224 /\ b <= 239 THEN 3
                   ELSE 0
             ok == /\ n > 0
                   /\ Len(bs) >= n
                   /\ \A i \in 2..n : IsCont(bs[i])
             c  == CASE n = 1 -> b
                     [] n = 2 -> (b - 192) * 64 + (bs[2] - 128)
                     [] n = 3 -> (b - 224) * 4096 + (bs[2] - 128) * 64
                                   + (bs[3] - 128)
         IN IF ~ok THEN Malformed
            ELSE IF n = 3 /\ (c < 2048 \/ IsSurrogate(c)) THEN Malformed
            ELSE LET t == DecodeUtf8(SubSeq(bs, n + 1, Len(bs)))
                 IN IF t.ok THEN Decoded(<<c>> \o t.str) ELSE Malformed

\* 16-bit units, big or little endian; a surrogate is malformed unless it is
\* a high one followed by a low one
RECURSIVE DecodeUtf16(_, _)
DecodeUtf16(bs, big) ==
    IF bs = <<>> THEN Decoded(<<>>)
    ELSE IF Len(bs) < 2 THEN Malformed
    ELSE LET u1 == IF big THEN bs[1] * 256 + bs[2] ELSE bs[2] * 256 + bs[1]
         IN IF ~IsSurrogate(u1)
            THEN LET t == DecodeUtf16(SubSeq(bs, 3, Len(bs)), big)
                 IN IF t.ok THEN Decoded(<<u1>> \o t.str) ELSE Malformed
            ELSE IF Len(bs) < 4 \/ u1 >= 56320 THEN Malformed
            ELSE LET u2 == IF big THEN bs[3] * 256 + bs[4]
                           ELSE bs[4] * 256 + bs[3]
                     t  == DecodeUtf16(SubSeq(bs, 5, Len(bs)), big)
                 IN IF u2 < 56320 \/ u2 > 57343 \/ ~t.ok THEN Malformed
                    ELSE Decoded(<<65536 + (u1 - 55296) * 1024 + (u2 - 56320)>>
                                   \o t.str)

\* bytes.decode in the frame's encoding
DecodeStr(enc, bs) ==
    CASE enc = 0 -> Decoded(bs)
      [] enc = 1 ->
           IF Len(bs) >= 2 /\ bs[1] = 255 /\ bs[2] = 254
           THEN DecodeUtf16(SubSeq(bs, 3, Len(bs)), FALSE)
           ELSE IF Len(bs) >= 2 /\ bs[1] = 254 /\ bs[2] = 255
           THEN DecodeUtf16(SubSeq(bs, 3, Len(bs)), TRUE)
           ELSE DecodeUtf16(bs, FALSE)
      [] enc = 2 -> DecodeUtf16(bs, TRUE)
      [] enc = 3 -> DecodeUtf8(bs)

\* where the first terminator of the encoding's width starts, 0 if none
TerminatorAt(enc, bs) ==
    LET w    == Len(Terminator(enc))
        hits == {i \in 1..(Len(bs) - w + 1) :
                   /\ (i - 1) % w = 0
                   /\ \A k \in 0..(w - 1) : bs[i + k] = 0}
    IN IF hits = {} THEN 0 ELSE CHOOSE i \in hits : \A j \in hits : i <= j

\* SequenceSpec.read: strings until the data is used up
RECURSIVE ReadStrings(_, _, _)
ReadStrings(enc, bs, acc) ==
    IF bs = <<>> THEN [ok |-> TRUE, strs |-> acc]
    ELSE LET at    == TerminatorAt(enc, bs)
             chunk == IF at = 0 THEN bs ELSE SubSeq(bs, 1, at - 1)
             rest  == IF at = 0 THEN <<>>
                      ELSE SubSeq(bs, at + Len(Terminator(enc)), Len(bs))
             d     == DecodeStr(enc, chunk)
         IN IF d.ok THEN ReadStrings(enc, rest, Append(acc, d.str))
            ELSE [ok |-> FALSE, strs |-> <<>>]

\* spec.read(frame, data)
ReadField(h, f, spec, data) ==
    CASE spec.kind = "EncodingSpec" ->
           IF data = <<>> THEN ReadRaise(h, "EOFError")
           ELSE IF data[1] \notin Encodings THEN ReadRaise(h, "FrameError")
           ELSE ReadRet(h, IntV(data[1]), Tail(data))
      [] spec.kind = "SequenceSpec" ->
           LET r == ReadStrings(GetAttr(h, f, "encoding").v, data, <<>>)
           IN IF ~r.ok THEN ReadRaise(h, "UnicodeDecodeError")
              ELSE ReadRet([h EXCEPT !.lists = Append(@, r.strs)],
                           ListV(Len(h.lists) + 1), <<>>)
      [] spec.kind = "URLStringSpec" ->
           LET at    == TerminatorAt(0, data)
               chunk == IF at = 0 THEN data ELSE SubSeq(data, 1, at - 1)
               rest  == IF at = 0 THEN <<>> ELSE SubSeq(data, at + 1, Len(data))
           IN IF \E i \in 1..Len(chunk) : chunk[i] >= 128
              THEN ReadRaise(h, "UnicodeDecodeError")
              ELSE ReadRet(h, StrV(chunk), rest)
      [] spec.kind = "BinaryDataSpec" ->
           ReadRet(h, BytesV(data), <<>>)

-----------------------------------------------------------------------------
(* Frame._from_data                                                        *)

RECURSIVE ReadFields(_, _, _, _, _)
ReadFields(h, f, framespec, i, data) ==
    IF i > Len(framespec) THEN Ret(h, FrameV(f), <<>>)
    ELSE LET r == ReadField(h, f, framespec[i], data)
         IN IF r.exc # "" THEN Raise(h, r.exc, <<>>)
            ELSE ReadFields(SetAttr(r.h, f, framespec[i].name, r.val), f,
                            framespec, i + 1, r.rest)

FromData(h, cls, frameid, data, flags) ==
    LET r == FrameInit(h, cls, frameid, flags, NoKwargs)
        w == IF Classes[cls].untested THEN <<"UntestedFrameWarning">> ELSE <<>>
    IN IF r.exc # "" THEN r
       ELSE LET d == ReadFields(r.h, r.val.v, Classes[cls].framespec, 1, data)
            IN IF d.exc # "" THEN Raise(h, d.exc, w) ELSE WithWarnings(d, w)

-----------------------------------------------------------------------------
(* ErrorFrame.__init__                                                     *)

\* the constructor without its "self.data = data"
ErrorFrameInitDropsData(h, frameid, data, exception, kwargs) ==
    LET h0 == [h EXCEPT !.dicts = Append(@, {})]
        r  == FrameInit(h0, "ErrorFrame", frameid, Len(h0.dicts), kwargs)
    IN IF r.exc # "" THEN Raise(h, r.exc, <<>>)
       ELSE Ret(SetAttr(r.h, r.val.v, "exception", exception), r.val, <<>>)

ErrorFrameInit(h, frameid, data, exception, kwargs) ==
    LET h0 == [h EXCEPT !.dicts = Append(@, {})]
        r  == FrameInit(h0, "ErrorFrame", frameid, Len(h0.dicts), kwargs)
    IN IF r.exc # "" THEN Raise(h, r.exc, <<>>)
       ELSE Ret(SetAttr(SetAttr(r.h, r.val.v, "data", data),
                        r.val.v, "exception", exception),
                r.val, <<>>)

-----------------------------------------------------------------------------
(* decode, as the tag container drives it: resolve the schema, decode the  *)
(* fields, and substitute an Error Frame when a field's decode raises.     *)

\* the schema is valid for version V: its version tag equals V, or is a set
\* that contains V
ValidIn(cls, V) ==
    LET tag == Classes[cls].version
    IN IF tag.isset THEN V \in tag.set ELSE tag.n = V

\* resolve(identifier, version): the registered frame type, or Unknown Frame
Resolve(frameid, version) ==
    IF frameid \in DOMAIN Id3Classes /\ ValidIn(frameid, version)
    THEN frameid ELSE "UnknownFrame"

Decode(h, frameid, version, data, flags) ==
    LET r == FromData(h, Resolve(frameid, version), frameid, data, flags)
    IN IF r.exc = "" THEN r
       ELSE WithWarnings(ErrorFrameInit(h, frameid, BytesV(data), ExcV(r.exc),
                                        NoKwargs),
                         r.warn)

-----------------------------------------------------------------------------
(* The state machine.  frames, lists and dicts are the heap; call is the   *)
(* call under way or last made, with the heap it found (pre); result and   *)
(* warnings are what that call returned or raised and what it warned.      *)

EmptyHeap == Heap(<<>>, <<>>, <<>>)

TheHeap == Heap(frames, lists, dicts)

NoCall ==
    [op |-> "", done |-> FALSE, cls |-> "", fs |-> <<>>, f |-> 0,
     version |-> 0, frameid |-> "", data |-> <<>>, flags |-> 0,
     name |-> "", val |-> NoneV, pre |-> EmptyHeap]

NoResult == [exc |-> "", val |-> NoneV]

\* the heap and the outcome after a call that returned or raised r
Finish(c, r) ==
    /\ frames' = r.h.frames
    /\ lists' = r.h.lists
    /\ dicts' = r.h.dicts
    /\ call' = [c EXCEPT !.done = TRUE, !.pre = TheHeap]
    /\ result' = [exc |-> r.exc, val |-> r.val]
    /\ warnings' = r.warn

\* the same for a call made on frames in use: only the operation is recorded
Step(op, r) ==
    /\ frames' = r.h.frames
    /\ lists' = r.h.lists
    /\ dicts' = r.h.dicts
    /\ call' = [NoCall EXCEPT !.op = op, !.done = TRUE]
    /\ result' = [exc |-> r.exc, val |-> r.val]
    /\ warnings' = r.warn

StartWith(h, c) ==
    /\ frames = h.frames
    /\ lists = h.lists
    /\ dicts = h.dicts
    /\ call = [c EXCEPT !.pre = h]
    /\ result = NoResult
    /\ warnings = <<>>

\* a frame object as Frame.__init__ leaves it, with its own flags dict (the
\* i-th dict) and the given attribute values
FrameObj(cls, i, attrs) ==
    [cls |-> cls, frameid |-> cls, flags |-> i,
     attrs |-> [a \in AttrNames |->
                  IF \E k \in 1..Len(Classes[cls].framespec) :
                        Classes[cls].framespec[k].name = a
                  THEN attrs[a] ELSE Absent]]

-----------------------------------------------------------------------------
(* Merge: a list of frames of one type, each holding its own text list     *)
(* (the i-th frame holds the i-th list, or no text yet), handed to the      *)
(* type's _merge.                                                          *)

MergeStrs == {<<65>>, <<337>>}

MergeClasses == ClassNames \ {"Frame", "ErrorFrame"}

InitMerge ==
    \E cls \in MergeClasses, n \in 0..MaxMerge :
      \E texts \in [1..n -> SeqsUpTo(MergeStrs, MaxMergeText)],
         unset \in SUBSET (1..n) :
        /\ \A i \in unset : texts[i] = <<>>
        /\ IsSubclass(cls, "TextFrame")
              \/ (unset = {} /\ \A i \in 1..n : texts[i] = <<>>)
        /\ StartWith(
             Heap([i \in 1..n |->
                     FrameObj(cls, i,
                        [a \in AttrNames |->
                           CASE a = "text" ->
                                  IF i \in unset THEN NoneV ELSE ListV(i)
                             [] a = "url" -> StrV(<<65>>)
                             [] a = "data" -> BytesV(<<65>>)
                             [] OTHER -> NoneV])],
                  [i \in 1..n |-> texts[i]],
                  [i \in 1..n |-> {}]),
             [NoCall EXCEPT !.op = "merge", !.cls = cls,
                            !.fs = [i \in 1..n |-> i]])

\* Frame._merge(frames), on a class that inherits it
MergeCall ==
    /\ call.op = "merge" /\ ~call.done
    /\ ~IsSubclass(call.cls, "TextFrame")
    /\ Finish(call, Merge(TheHeap, call.cls, call.fs))

\* TextFrame._merge(frames), on TextFrame or a subclass
TextMergeCall ==
    /\ call.op = "merge" /\ ~call.done
    /\ IsSubclass(call.cls, "TextFrame")
    /\ Finish(call, TextMerge(TheHeap, call.cls, call.fs))

NextMerge == MergeCall \/ TextMergeCall

SpecMerge == InitMerge /\ [][NextMerge]_vars

MergeDone == call.op = "merge" /\ call.done

Count(seq, x) == Cardinality({i \in 1..Len(seq) : seq[i] = x})

\* the text list the frame f holds in the heap h
TextOf(h, f) == h.lists[h.frames[f].attrs["text"].v]

HasText(h, f) == h.frames[f].attrs["text"].t = "list"

\* C1: Frame._merge of a non-empty list of frames of one type returns the
\* input list, untouched, when the type allows duplicates; otherwise it
\* returns the list of the last input frame alone, and warns of the
\* duplicate exactly once when the input holds more than one frame and not
\* at all when it holds one.
C1_MergeKeepsAllOrLast ==
    (MergeDone /\ ~IsSubclass(call.cls, "TextFrame") /\ call.fs # <<>>) =>
       /\ result.exc = ""
       /\ TheHeap = call.pre
       /\ IF Classes[call.cls].allow_duplicates
          THEN result.val = FramesV(call.fs)
          ELSE /\ result.val = FramesV(<<call.fs[Len(call.fs)]>>)
               /\ Count(warnings, "DuplicateWarning")
                    = IF Len(call.fs) > 1 THEN 1 ELSE 0

\* three duplicates of a type that does not allow them were merged: the last
\* one is kept and one warning is out
C1_Witness ==
    /\ MergeDone
    /\ ~IsSubclass(call.cls, "TextFrame")
    /\ ~Classes[call.cls].allow_duplicates
    /\ Len(call.fs) = 3
    /\ result.val = FramesV(<<3>>)
    /\ warnings = <<"DuplicateWarning">>

\* C2: TextFrame._merge of a list of text frames, each holding a text list,
\* returns a list of exactly one frame, whose text list is the concatenation
\* of the input frames' text lists in input order.
C2_TextMergeConcatenates ==
    (/\ MergeDone
     /\ IsSubclass(call.cls, "TextFrame")
     /\ \A i \in 1..Len(call.fs) : HasText(call.pre, call.fs[i])) =>
       /\ result.exc = ""
       /\ result.val.t = "frames"
       /\ Len(result.val.s) = 1
       /\ HasText(TheHeap, result.val.s[1])
       /\ TextOf(TheHeap, result.val.s[1])
            = Concat([i \in 1..Len(call.fs) |-> TextOf(call.pre, call.fs[i])])

\* three text frames, holding ["A"], one other string and ["A"], were merged
\* into one frame holding the three strings in that order
C2_Witness ==
    /\ MergeDone
    /\ IsSubclass(call.cls, "TextFrame")
    /\ Len(call.fs) = 3
    /\ \A i \in 1..3 : HasText(call.pre, i)
    /\ TextOf(call.pre, 1) = << <<65>> >>
    /\ TextOf(call.pre, 2) = << <<337>> >>
    /\ TextOf(call.pre, 3) = << <<65>> >>
    /\ result.exc = ""
    /\ TextOf(TheHeap, result.val.s[1]) = << <<65>>, <<337>>, <<65>> >>

-----------------------------------------------------------------------------
(* Encode: one frame, built by the constructor, handed to _to_data.        *)

EncodeClasses == {"Frame", "TextFrame", "TIT2", "URLFrame", "UnknownFrame", "CRM"}

InitEncode ==
    \E cls \in EncodeClasses,
       enc \in {NoneV} \cup {IntV(e) : e \in Encodings},
       text \in SeqsUpTo(Strs, MaxText),
       unset \in BOOLEAN,
       url \in {StrV(<<c>>) : c \in {65, 337}},
       data \in {BytesV(<<65>>), BytesV(<<>>)} :
      /\ IsSubclass(cls, "TextFrame")
            \/ (enc = NoneV /\ text = <<>> /\ ~unset)
      /\ IsSubclass(cls, "URLFrame") \/ url = StrV(<<65>>)
      /\ cls \in {"UnknownFrame", "CRM"} \/ data = BytesV(<<>>)
      /\ StartWith(
           Heap(<<FrameObj(cls, 1,
                     [a \in AttrNames |->
                        CASE a = "encoding" -> enc
                          [] a = "text" -> IF unset THEN NoneV ELSE ListV(1)
                          [] a = "url" -> url
                          [] a = "data" -> data
                          [] OTHER -> NoneV])>>,
                <<text>>, <<{}>>),
           [NoCall EXCEPT !.op = "to_data", !.f = 1, !.cls = cls])

\* frame._to_data()
ToDataCall ==
    /\ call.op = "to_data" /\ ~call.done
    /\ Finish(call, ToData(TheHeap, call.f))

NextEncode == ToDataCall

SpecEncode == InitEncode /\ [][NextEncode]_vars

EncodeDone == call.op = "to_data" /\ call.done

LeadingEncodingSpec(cls) ==
    /\ Classes[cls].framespec # <<>>
    /\ Classes[cls].framespec[1].kind = "EncodingSpec"

\* the full encode pass over the frame as the call found it, with the
\* encoding selector set to the i-th preferred encoding
PreferredPass(i) ==
    Encode(SetAttr(call.pre, call.f, "encoding", IntV(preferred_encodings[i])),
           call.f)

\* C3: _to_data of a frame whose leading field is an Encoding Selector (its
\* text field holding a list): when no encoding is fixed, or when the pass
\* with the fixed encoding raises UnicodeEncodeError, the call returns the
\* bytes of the first full pass, in the order of preferred_encodings, that
\* succeeds; when no pass succeeds it fails with the encoding error, which
\* the code raises as ValueError("Could not encode strings").
C3_FallbackReturnsFirstSuccess ==
    (/\ EncodeDone
     /\ LeadingEncodingSpec(call.cls)
     /\ HasText(call.pre, call.f)
     /\ \/ GetAttr(call.pre, call.f, "encoding") = NoneV
        \/ Encode(call.pre, call.f).exc = "UnicodeEncodeError") =>
       LET good == {i \in 1..Len(preferred_encodings) : PreferredPass(i).exc = ""}
       IN IF good = {}
          THEN result.exc = "ValueError"
          ELSE /\ result.exc = ""
               /\ \E i \in good :
                    /\ \A j \in good : i <= j
                    /\ result.val = PreferredPass(i).val

\* a text frame fixed to latin-1 holds a string latin-1 cannot represent:
\* the latin-1 pass of the retry failed again and the utf-16 pass was returned
C3_Witness ==
    /\ EncodeDone
    /\ LeadingEncodingSpec(call.cls)
    /\ GetAttr(call.pre, call.f, "encoding") = IntV(0)
    /\ HasText(call.pre, call.f)
    /\ TextOf(call.pre, call.f) = << <<65>>, <<337>> >>
    /\ result.exc = ""
    /\ result.val = BytesV(<<1, 255, 254, 65, 0, 0, 0, 255, 254, 81, 1, 0, 0>>)

\* C10: _to_data leaves the frame as it found it: after the call, returned
\* or failed, every field of the frame's schema, the encoding selector
\* included, holds the value it held before the call, and so does the text
\* list.
C10_EncodeLeavesFrame ==
    EncodeDone =>
       /\ \A k \in 1..Len(Classes[call.cls].framespec) :
            GetAttr(TheHeap, call.f, Classes[call.cls].framespec[k].name)
              = GetAttr(call.pre, call.f, Classes[call.cls].framespec[k].name)
       /\ lists = call.pre.lists

-----------------------------------------------------------------------------
(* Version translation: one frame, handed to _to_version with a target     *)
(* version.                                                                *)

Versions == 2..4

VersionClasses == ClassNames \ {"ErrorFrame"}

InitVersion ==
    \E cls \in VersionClasses, version \in Versions,
       text \in SeqsUpTo(Strs, 1), flags \in {{}, {"unknown"}} :
      /\ IsSubclass(cls, "TextFrame") \/ text = <<>>
      /\ StartWith(
           Heap(<<FrameObj(cls, 1,
                     [a \in AttrNames |->
                        CASE a = "encoding" -> IntV(3)
                          [] a = "text" -> ListV(1)
                          [] a = "url" -> StrV(<<65>>)
                          [] a = "data" -> BytesV(<<65>>)
                          [] OTHER -> NoneV])>>,
                <<text>>, <<flags>>),
           [NoCall EXCEPT !.op = "to_version", !.f = 1, !.cls = cls,
                          !.version = version])

\* frame._to_version(version)
ToVersionCall ==
    /\ call.op = "to_version" /\ ~call.done
    /\ Finish(call, ToVersion(TheHeap, call.f, call.version))

NextVersion == ToVersionCall

SpecVersion == InitVersion /\ [][NextVersion]_vars

VersionDone == call.op = "to_version" /\ call.done

\* C5: _to_version(V) of a frame whose schema is valid for V (its version tag
\* equals V or is a set that contains V) returns the very same frame, with
\* identifier, flags and field values unchanged.
C5_ValidFrameReturnedUnchanged ==
    (VersionDone /\ ValidIn(call.cls, call.version)) =>
       /\ result.exc = ""
       /\ result.val = FrameV(call.f)
       /\ TheHeap = call.pre

\* none of the three mappings of _to_version applies
NoMapping(cls, V) ==
    /\ ~ValidIn(cls, V)
    /\ ~(V = 2 /\ Classes[cls].v2_frame # "")
    /\ ~(/\ ValidIn(cls, 2)
         /\ Classes[cls].base \in ClassNames
         /\ ValidIn(Classes[cls].base, V))

\* C6: _to_version(V) fails with IncompatibleFrameError, and with no other
\* error, exactly when none of the three mappings applies; in every other
\* case it returns a frame.
C6_IncompatibleExactlyWhenNoMapping ==
    VersionDone =>
       IF NoMapping(call.cls, call.version)
       THEN result.exc = "IncompatibleFrameError"
       ELSE result.exc = "" /\ result.val.t = "Frame"

-----------------------------------------------------------------------------
(* Decode: an identifier, a version, a payload and the flags parsed from   *)
(* the frame header, handed to decode.                                     *)

\* payload bytes: the selectors of latin-1, utf-16 and utf-8, "A", and the
\* two bytes of o-double-acute in utf-8
DataBytes == {0, 1, 3, 65, 197, 145}

DecodeIds == {"TIT2", "TT2", "TDRC", "WOAR", "CRM", "XXXX"}

InitDecode ==
    \E frameid \in DecodeIds, version \in Versions,
       data \in SeqsUpTo(DataBytes, MaxData), flags \in {0, 1} :
      StartWith(Heap(<<>>, <<>>, <<{"unknown"}>>),
                [NoCall EXCEPT !.op = "decode", !.frameid = frameid,
                               !.version = version, !.data = data,
                               !.flags = flags])

DecodeCall ==
    /\ call.op = "decode" /\ ~call.done
    /\ Finish(call, Decode(TheHeap, call.frameid, call.version, call.data,
                           call.flags))

NextDecode == DecodeCall

SpecDecode == InitDecode /\ [][NextDecode]_vars

DecodeDone == call.op = "decode" /\ call.done

\* what _from_data does on the call's arguments
FromDataOfCall ==
    FromData(call.pre, Resolve(call.frameid, call.version), call.frameid,
             call.data, call.flags)

-----------------------------------------------------------------------------
(* Frames in use: a caller constructs frames, assigns to their fields,     *)
(* copies them, and mutates the text list or the flags dict it reaches     *)
(* through a frame.                                                        *)

HeapClasses == {"TIT2", "WOAR"}

InitHeap == StartWith(EmptyHeap, NoCall)

SchemaNames(cls) ==
    {Classes[cls].framespec[k].name : k \in 1..Len(Classes[cls].framespec)}

\* cls(flags=..., **kwargs): the caller passes no flags, or a dict of its
\* own making, and values of its own making (text "list": a new list)
Construct ==
    \E cls \in HeapClasses,
       flags \in {"None", "empty", "unknown"},
       enc \in {NoneV, IntV(0), IntV(7)},
       text \in {"None", "list", "str"},
       url \in {NoneV, StrV(<<65>>), StrV(<<337>>)} :
      /\ Len(frames) < MaxFrames
      /\ text = "list" => Len(lists) < MaxFrames
      /\ IsSubclass(cls, "TextFrame") \/ (enc = NoneV /\ text = "None")
      /\ IsSubclass(cls, "URLFrame") \/ url = NoneV
      /\ LET li == IF text = "list" THEN Append(lists, << <<65>> >>) ELSE lists
             di == CASE flags = "empty" -> Append(dicts, {})
                     [] flags = "unknown" -> Append(dicts, {"unknown"})
                     [] OTHER -> dicts
             kw == [a \in AttrNames |->
                      CASE a = "encoding" -> enc
                        [] a = "text" ->
                             CASE text = "None" -> NoneV
                               [] text = "str" -> StrV(<<65>>)
                               [] OTHER -> ListV(Len(li))
                        [] a = "url" -> url
                        [] OTHER -> NoneV]
             r  == FrameInit(Heap(frames, li, di), cls, "",
                             IF flags = "None" THEN 0 ELSE Len(di), kw)
         IN Step("construct", IF r.exc # "" THEN [r EXCEPT !.h = TheHeap] ELSE r)

\* frame.name = val: Frame defines no __setattr__, the value is stored as is
Assign ==
    \E f \in 1..Len(frames), name \in AttrNames,
       val \in {NoneV, IntV(1), IntV(7), StrV(<<65>>), StrV(<<337>>)} :
      /\ name \in SchemaNames(frames[f].cls)
      /\ name = "encoding" => val.t \in {"None", "int"}
      /\ name \in {"text", "url"} => val.t \in {"None", "str"}
      /\ Step("assign", Ret(SetAttr(TheHeap, f, name, val), NoneV, <<>>))

\* cls._from_frame(frame)
CopyCall ==
    \E cls \in HeapClasses \cup {"TT2"}, f \in 1..Len(frames) :
      /\ Len(frames) < MaxFrames
      /\ Step("from_frame", FromFrame(TheHeap, cls, f))

\* frame.text.append(s)
ListAppend ==
    \E f \in 1..Len(frames) :
      /\ HasText(TheHeap, f)
      /\ Len(TextOf(TheHeap, f)) < MaxText
      /\ Step("append",
              Ret([TheHeap EXCEPT !.lists[frames[f].attrs["text"].v]
                                    = Append(@, <<337>>)],
                  NoneV, <<>>))

\* frame.flags["unknown"] = True
FlagSet ==
    \E f \in 1..Len(frames) :
      Step("flag",
           Ret([TheHeap EXCEPT !.dicts[frames[f].flags] = @ \cup {"unknown"}],
               NoneV, <<>>))

NextHeap == Construct \/ Assign \/ CopyCall \/ ListAppend \/ FlagSet

SpecHeap == InitHeap /\ [][NextHeap]_vars

\* C8: after any sequence of construct calls and field assignments, every
\* set (non-None) field of every frame holds a value its codec's validate
\* accepts.
C8_SetFieldsAreValid ==
    \A f \in 1..Len(frames) :
      \A k \in 1..Len(Classes[frames[f].cls].framespec) :
        LET spec == Classes[frames[f].cls].framespec[k]
        IN frames[f].attrs[spec.name] # NoneV
             => ValidateOK(spec, frames[f].attrs[spec.name])

\* C9: no two distinct frames share a mutable flags dict or a mutable field
\* value (a text list), so that mutating one cannot change what another
\* holds.
C9_NoSharedMutableState ==
    \A f, g \in 1..Len(frames) :
      f # g =>
        /\ frames[f].flags # frames[g].flags
        /\ (HasText(TheHeap, f) /\ HasText(TheHeap, g))
             => frames[f].attrs["text"].v # frames[g].attrs["text"].v

====
